---- MODULE Spec2Model ----
(***************************************************************************)
(* A model of proto/chimera/sources/fsd.py: the parameter codec            *)
(* (encode / decode) of FSDModelGPLVM and FSDModelGPLVMRestricted, the     *)
(* canonicalisation get_sorted_fsd_xi, the SortByComponentWeights          *)
(* transform with its intermediates cache, and the model / guide paths.    *)
(*                                                                         *)
(* Numbers.  A positive real (mu, phi, w) is an exact rational <<n, d>> in *)
(* lowest terms.  A coordinate of the unconstrained vector xi is the       *)
(* logarithm of a positive rational, held as the function that maps each   *)
(* prime of its factorisation to that prime's exponent:                    *)
(*     log(12/5) = 2 ln 2 + 1 ln 3 - 1 ln 5  is  (2 :> 2) @@ (3 :> 1) @@   *)
(*     (5 :> -1).                                                          *)
(* The logarithms of the primes are linearly independent over the          *)
(* rationals, so two such values are equal exactly when the reals are.     *)
(* Floating-point rounding is not modelled.                                *)
(*                                                                         *)
(* Tensors.  A tensor is an object of the heap: its identity is its index  *)
(* in heap, its content is heap[id].  Only the last dimension of a tensor  *)
(* is modelled (one row of a batch).                                       *)
(***************************************************************************)
EXTENDS Integers, Sequences, FiniteSets, TLC

VARIABLES cfg,      \* the constructed model: variant, component counts, link parameters
          probe,    \* the last call of a codec function and what it returned
          heap,     \* the tensors allocated so far: heap[id] is the content of tensor id
          caches,   \* caches[t]: _intermediates_cache of transform instance t
          invs,     \* the model / guide invocations, each with its position
          last,     \* the last call on a transform instance and its outcome
          live,     \* history: live[t] maps each registered, unconsumed output to its input
          regd      \* history: regd[t] is every output ever registered on instance t

vars == <<cfg, probe, heap, caches, invs, last, live, regd>>

(***************************************************************************)
(* Bounds of the model.                                                    *)
(***************************************************************************)
MaxComps == 3       \* component counts range over 1..MaxComps
WDen == 4           \* weights are k / WDen, k >= 1
MaxTensors == 4     \* tensors allocated in one behaviour
MaxInvocations == 2 \* model / guide invocations in one behaviour

(***************************************************************************)
(* Exact positive rationals.                                               *)
(***************************************************************************)
Abs(a) == IF a < 0 THEN -a ELSE a

Min(a, b) == IF a < b THEN a ELSE b

RECURSIVE GCD(_, _)
GCD(a, b) == IF b = 0 THEN a ELSE GCD(b, a % b)

Q(n, d) ==
    LET g == GCD(Abs(n), Abs(d))
        s == IF d < 0 THEN -1 ELSE 1
    IN  <<s * (n \div g), s * (d \div g)>>

QOne == <<1, 1>>

QAdd(a, b) == Q(a[1] * b[2] + b[1] * a[2], a[2] * b[2])

QSub(a, b) == Q(a[1] * b[2] - b[1] * a[2], a[2] * b[2])

QMul(a, b) == Q(a[1] * b[1], a[2] * b[2])

QDiv(a, b) == Q(a[1] * b[2], a[2] * b[1])

QLess(a, b) == a[1] * b[2] < b[1] * a[2]

RECURSIVE QSum(_)
QSum(s) == IF s = <<>> THEN <<0, 1>> ELSE QAdd(Head(s), QSum(Tail(s)))

RECURSIVE QProd(_)
QProd(s) == IF s = <<>> THEN QOne ELSE QMul(Head(s), QProd(Tail(s)))

(***************************************************************************)
(* Logarithms of positive rationals, as prime-exponent vectors.            *)
(***************************************************************************)
RECURSIVE Pow(_, _)
Pow(b, k) == IF k = 0 THEN 1 ELSE b * Pow(b, k - 1)

RECURSIVE Val(_, _)
Val(p, n) == IF n % p # 0 THEN 0 ELSE 1 + Val(p, n \div p)

PrimesOf(n) == {p \in 2..n : n % p = 0 /\ \A k \in 2..(p - 1) : p % k # 0}

\* tensor.log() on a positive value
Log(q) ==
    [p \in PrimesOf(q[1]) \cup PrimesOf(q[2]) |-> Val(p, q[1]) - Val(p, q[2])]

RECURSIVE PowProd(_, _, _)
PowProd(S, l, sign) ==
    IF S = {} THEN 1
    ELSE LET p == CHOOSE x \in S : TRUE
         IN  (IF sign * l[p] > 0 THEN Pow(p, sign * l[p]) ELSE 1)
                 * PowProd(S \ {p}, l, sign)

\* tensor.exp()
Exp(l) == Q(PowProd(DOMAIN l, l, 1), PowProd(DOMAIN l, l, -1))

LZero == Log(QOne)

LCoef(a, p) == IF p \in DOMAIN a THEN a[p] ELSE 0

LAdd(a, b) ==
    [p \in {x \in DOMAIN a \cup DOMAIN b : LCoef(a, x) + LCoef(b, x) # 0}
        |-> LCoef(a, p) + LCoef(b, p)]

\* k * a for an integer k
LScale(k, a) == [p \in {x \in DOMAIN a : k # 0} |-> k * a[p]]

LSub(a, b) == LAdd(a, LScale(-1, b))

\* x.log() and x.exp() applied along the last dimension
MapLog(s) == [i \in 1..Len(s) |-> Log(s[i])]

MapExp(s) == [i \in 1..Len(s) |-> Exp(s[i])]

\* torch.logsumexp(s, dim=-1)
LogSumExp(s) == Log(QSum(MapExp(s)))

\* python's s[a:b] along the last dimension (0-based, half-open, clamped)
Slice(s, a, b) == SubSeq(s, Min(a, Len(s)) + 1, Min(b, Len(s)))

(***************************************************************************)
(* torch.distributions.transforms.StickBreakingTransform, the bijection    *)
(* between R^(K-1) and the interior of the K-simplex the two classes hold  *)
(* as `stick`.                                                             *)
(***************************************************************************)
Sigmoid(l) == QDiv(Exp(l), QAdd(QOne, Exp(l)))

\* mutant: the pieces broken off, without the remainder of the stick
Stick_without_remainder(x) ==
    LET K == Len(x) + 1
        z == [i \in 1..(K - 1) |-> Sigmoid(LSub(x[i], Log(<<K - i, 1>>)))]
        rest(i) == QProd([j \in 1..(i - 1) |-> QSub(QOne, z[j])])
    IN  [i \in 1..(K - 1) |-> QMul(z[i], rest(i))]

\* stick(x): z = sigmoid(x - log(offset)), y = [z, 1] * [1, cumprod(1 - z)]
Stick(x) ==
    LET K == Len(x) + 1
        z == [i \in 1..(K - 1) |-> Sigmoid(LSub(x[i], Log(<<K - i, 1>>)))]
        rest(i) == QProd([j \in 1..(i - 1) |-> QSub(QOne, z[j])])
    IN  [i \in 1..K |-> IF i < K THEN QMul(z[i], rest(i)) ELSE rest(K)]

\* stick.inv(y): x = log(y[:-1]) - log(1 - cumsum(y[:-1])) + log(offset)
StickInv(y) ==
    LET K == Len(y)
        sf(i) == QSub(QOne, QSum(SubSeq(y, 1, i)))
    IN  [i \in 1..(K - 1) |->
            LAdd(LSub(Log(y[i]), Log(sf(i))), Log(<<K - i, 1>>))]

(***************************************************************************)
(* The constructed model.  cfg.variant is "full" for FSDModelGPLVM and     *)
(* "restricted" for FSDModelGPLVMRestricted; the link parameters and the   *)
(* detachment flag belong to the restricted model only.                    *)
(***************************************************************************)
FSDModelGPLVM(n_hi, n_lo) ==
    [variant |-> "full",
     n_fsd_hi_comps |-> n_hi,
     n_fsd_lo_comps |-> n_lo,
     log_mu_lo_intercept |-> LZero,
     log_mu_lo_slope |-> 1,
     detach_non_inducing_genes |-> FALSE]

FSDModelGPLVMRestricted(n_hi, intercept, slope, detach) ==
    [variant |-> "restricted",
     n_fsd_hi_comps |-> n_hi,
     n_fsd_lo_comps |-> 1,
     log_mu_lo_intercept |-> intercept,
     log_mu_lo_slope |-> slope,
     detach_non_inducing_genes |-> detach]

\* mutant: counts 3 dimensions for every component and drops one in all
FSDModelGPLVM_fsd_xi_dim_one_off(c) ==
    3 * c.n_fsd_lo_comps + 3 * c.n_fsd_hi_comps - 1

FSDModelGPLVM_fsd_xi_dim(c) ==
    LET n_lo == 3 * c.n_fsd_lo_comps - 1
        n_hi == 3 * c.n_fsd_hi_comps - 1
    IN  n_lo + n_hi

FSDModelGPLVMRestricted_fsd_xi_dim(c) ==
    LET n_hi == 3 * c.n_fsd_hi_comps - 1
    IN  n_hi

fsd_xi_dim(c) ==
    IF c.variant = "full" THEN FSDModelGPLVM_fsd_xi_dim(c)
    ELSE FSDModelGPLVMRestricted_fsd_xi_dim(c)

(***************************************************************************)
(* encode: the tuple of segments, then torch.cat along the last dimension. *)
(***************************************************************************)
\* mutant: concatenates the lo segments before the hi segments
FSDModelGPLVM_encode_parts_lo_first(c, p) ==
    <<[name |-> "mu_lo", vals |-> MapLog(p.mu_lo)],
      [name |-> "phi_lo", vals |-> MapLog(p.phi_lo)]>>
    \o (IF c.n_fsd_lo_comps > 1
        THEN <<[name |-> "w_lo", vals |-> StickInv(p.w_lo)]>> ELSE <<>>)
    \o <<[name |-> "mu_hi", vals |-> MapLog(p.mu_hi)],
         [name |-> "phi_hi", vals |-> MapLog(p.phi_hi)]>>
    \o (IF c.n_fsd_hi_comps > 1
        THEN <<[name |-> "w_hi", vals |-> StickInv(p.w_hi)]>> ELSE <<>>)

FSDModelGPLVM_encode_parts(c, p) ==
    <<[name |-> "mu_hi", vals |-> MapLog(p.mu_hi)],
      [name |-> "phi_hi", vals |-> MapLog(p.phi_hi)]>>
    \o (IF c.n_fsd_hi_comps > 1
        THEN <<[name |-> "w_hi", vals |-> StickInv(p.w_hi)]>> ELSE <<>>)
    \o <<[name |-> "mu_lo", vals |-> MapLog(p.mu_lo)],
         [name |-> "phi_lo", vals |-> MapLog(p.phi_lo)]>>
    \o (IF c.n_fsd_lo_comps > 1
        THEN <<[name |-> "w_lo", vals |-> StickInv(p.w_lo)]>> ELSE <<>>)

FSDModelGPLVMRestricted_encode_parts(c, p) ==
    <<[name |-> "mu_hi", vals |-> MapLog(p.mu_hi)],
      [name |-> "phi_hi", vals |-> MapLog(p.phi_hi)]>>
    \o (IF c.n_fsd_hi_comps > 1
        THEN <<[name |-> "w_hi", vals |-> StickInv(p.w_hi)]>> ELSE <<>>)

encode_parts(c, p) ==
    IF c.variant = "full" THEN FSDModelGPLVM_encode_parts(c, p)
    ELSE FSDModelGPLVMRestricted_encode_parts(c, p)

RECURSIVE Cat(_)
Cat(parts) == IF parts = <<>> THEN <<>> ELSE Head(parts).vals \o Cat(Tail(parts))

encode(c, p) == Cat(encode_parts(c, p))

(***************************************************************************)
(* decode: the assertion on the last dimension, the running offset, the    *)
(* slices, and the maps back to mu, phi and w.                             *)
(***************************************************************************)
\* mutant: no assertion on the last dimension
decode_dim_unchecked(c, xi) == TRUE

decode_dim_ok(c, xi) == Len(xi) = fsd_xi_dim(c)

\* the slices of one branch, in the order decode takes them, with their lengths:
\* n for log mu, n for log phi, and n - 1 for the weights when n > 1
branch_slices(n, mu, phi, w) ==
    <<[name |-> mu, len |-> n], [name |-> phi, len |-> n]>>
    \o (IF n > 1 THEN <<[name |-> w, len |-> n - 1]>> ELSE <<>>)

FSDModelGPLVM_decode_slices(c) ==
    branch_slices(c.n_fsd_hi_comps, "mu_hi", "phi_hi", "w_hi")
    \o branch_slices(c.n_fsd_lo_comps, "mu_lo", "phi_lo", "w_lo")

FSDModelGPLVMRestricted_decode_slices(c) ==
    branch_slices(c.n_fsd_hi_comps, "mu_hi", "phi_hi", "w_hi")

\* offset = 0; each slice is xi[..., offset:(offset + len)]; offset += len
RECURSIVE running_offset(_, _)
running_offset(slices, offset) ==
    IF slices = <<>> THEN <<>>
    ELSE <<[name |-> Head(slices).name, from |-> offset,
            to |-> offset + Head(slices).len]>>
         \o running_offset(Tail(slices), offset + Head(slices).len)

decode_segments(c) ==
    IF c.variant = "full" THEN running_offset(FSDModelGPLVM_decode_slices(c), 0)
    ELSE running_offset(FSDModelGPLVMRestricted_decode_slices(c), 0)

\* xi[..., from:to] for the named segment of segs (empty when segs has none)
SegmentOf(segs, xi, name) ==
    IF \A i \in 1..Len(segs) : segs[i].name # name THEN <<>>
    ELSE LET k == CHOOSE i \in 1..Len(segs) : segs[i].name = name
         IN  Slice(xi, segs[k].from, segs[k].to)

Segment(c, xi, name) == SegmentOf(decode_segments(c), xi, name)

OnesLike(s) == [i \in 1..Len(s) |-> QOne]

NoParams ==
    [mu_lo |-> <<>>, phi_lo |-> <<>>, w_lo |-> <<>>,
     mu_hi |-> <<>>, phi_hi |-> <<>>, w_hi |-> <<>>]

\* parents_dict: None, or the two masks of the row
NoParents == [given |-> FALSE, inducing |-> 0, non_inducing |-> 0]

\* utils.get_detached_on_non_inducing_genes: cuts the gradient on the rows of
\* non-inducing genes; the value of the scalar is the same on every row
get_detached_on_non_inducing_genes(input_scalar, inducing, non_inducing) ==
    input_scalar

\* one branch read directly from xi: mu = log_mu.exp(), phi = log_phi.exp(),
\* w = stick(...) when n > 1 and torch.ones_like(mu) otherwise
direct_branch(n, log_mu, log_phi, w_xi) ==
    [log_mu |-> log_mu,
     mu |-> MapExp(log_mu),
     phi |-> MapExp(log_phi),
     w |-> IF n > 1 THEN Stick(w_xi) ELSE OnesLike(MapExp(log_mu))]

hi_branch(c, xi) ==
    direct_branch(c.n_fsd_hi_comps, Segment(c, xi, "mu_hi"),
                  Segment(c, xi, "phi_hi"), Segment(c, xi, "w_hi"))

lo_branch(c, xi) ==
    direct_branch(c.n_fsd_lo_comps, Segment(c, xi, "mu_lo"),
                  Segment(c, xi, "phi_lo"), Segment(c, xi, "w_lo"))

\* the dictionary decode returns
params_dict(lo, hi) ==
    [err |-> "none",
     params |-> [mu_lo |-> lo.mu, phi_lo |-> lo.phi, w_lo |-> lo.w,
                 mu_hi |-> hi.mu, phi_hi |-> hi.phi, w_hi |-> hi.w]]

AssertionFailed == [err |-> "AssertionError", params |-> NoParams]

FSDModelGPLVM_decode(c, xi, parents) ==
    IF ~decode_dim_ok(c, xi) THEN AssertionFailed
    ELSE params_dict(lo_branch(c, xi), hi_branch(c, xi))

\* mutant: the mean of mu_hi taken without the weights
log_mean_mu_hi_unweighted(log_mu_hi, w_hi) == LogSumExp(log_mu_hi)

\* log_mean_mu_hi = torch.logsumexp(log_mu_hi + w_hi.log(), dim=-1)
log_mean_mu_hi(log_mu_hi, w_hi) ==
    LogSumExp([i \in 1..Min(Len(log_mu_hi), Len(w_hi)) |->
                  LAdd(log_mu_hi[i], Log(w_hi[i]))])

\* the intercept and the slope of the row: detached when the flag is set and
\* parents_dict is given, the parameters themselves otherwise
link_scalar(c, parents, input_scalar) ==
    IF c.detach_non_inducing_genes /\ parents.given
    THEN get_detached_on_non_inducing_genes(
             input_scalar, parents.inducing, parents.non_inducing)
    ELSE input_scalar

\* log_mu_lo = (intercept_n + slope_n * log_mean_mu_hi).unsqueeze(-1)
log_mu_lo(c, parents, hi) ==
    <<LAdd(link_scalar(c, parents, c.log_mu_lo_intercept),
           LScale(link_scalar(c, parents, c.log_mu_lo_slope),
                  log_mean_mu_hi(hi.log_mu, hi.w)))>>

\* mu_lo = log_mu_lo.exp(); phi_lo = ones_like(mu_lo); w_lo = ones_like(mu_lo)
synthesized_branch(mu_lo) ==
    [mu |-> mu_lo, phi |-> OnesLike(mu_lo), w |-> OnesLike(mu_lo)]

restricted_params(c, parents, hi) ==
    params_dict(synthesized_branch(MapExp(log_mu_lo(c, parents, hi))), hi)

FSDModelGPLVMRestricted_decode(c, xi, parents) ==
    IF ~decode_dim_ok(c, xi) THEN AssertionFailed
    ELSE restricted_params(c, parents, hi_branch(c, xi))

decode(c, xi, parents) ==
    IF c.variant = "full" THEN FSDModelGPLVM_decode(c, xi, parents)
    ELSE FSDModelGPLVMRestricted_decode(c, xi, parents)

(***************************************************************************)
(* The sort.  torch.argsort(w, descending=True) promises no order among    *)
(* equal elements: it may return any index order along which w does not    *)
(* increase.  So the sort has a set of possible results.                   *)
(***************************************************************************)
Perms(n) == {f \in [1..n -> 1..n] : \A i, j \in 1..n : i # j => f[i] # f[j]}

argsort_descending(w) ==
    {f \in Perms(Len(w)) : \A i \in 1..(Len(w) - 1) : ~QLess(w[f[i]], w[f[i + 1]])}

\* torch.gather(s, dim=-1, index=idx)
gather(s, idx) == [i \in 1..Len(idx) |-> s[idx[i]]]

\* mutant: the means are left in their input order
get_sorted_params_dict_mu_in_place(p) ==
    {[mu_lo |-> p.mu_lo, phi_lo |-> gather(p.phi_lo, lo),
      w_lo |-> gather(p.w_lo, lo),
      mu_hi |-> p.mu_hi, phi_hi |-> gather(p.phi_hi, hi),
      w_hi |-> gather(p.w_hi, hi)] :
        lo \in argsort_descending(p.w_lo), hi \in argsort_descending(p.w_hi)}

get_sorted_params_dict(p) ==
    {[mu_lo |-> gather(p.mu_lo, lo), phi_lo |-> gather(p.phi_lo, lo),
      w_lo |-> gather(p.w_lo, lo),
      mu_hi |-> gather(p.mu_hi, hi), phi_hi |-> gather(p.phi_hi, hi),
      w_hi |-> gather(p.w_hi, hi)] :
        lo \in argsort_descending(p.w_lo), hi \in argsort_descending(p.w_hi)}

\* the restricted model sorts the hi branch alone and encodes these three keys
restricted_sorted_params_dict(p) ==
    {[mu_hi |-> gather(p.mu_hi, hi), phi_hi |-> gather(p.phi_hi, hi),
      w_hi |-> gather(p.w_hi, hi)] : hi \in argsort_descending(p.w_hi)}

\* sort and re-encode what decode returned; no result when its assertion failed
sorted_fsd_xi(c, d) ==
    IF d.err # "none" THEN {}
    ELSE IF c.variant = "full"
         THEN {encode(c, sp) : sp \in get_sorted_params_dict(d.params)}
         ELSE {encode(c, sp) : sp \in restricted_sorted_params_dict(d.params)}

\* the possible results of get_sorted_fsd_xi(fsd_xi)
get_sorted_fsd_xi(c, fsd_xi) == sorted_fsd_xi(c, decode(c, fsd_xi, NoParents))

(***************************************************************************)
(* Inputs of the codec functions: the models that can be constructed, the  *)
(* MixtureParams handed to encode, and the vectors handed to decode.       *)
(***************************************************************************)
RECURSIVE SumInts(_)
SumInts(s) == IF s = <<>> THEN 0 ELSE Head(s) + SumInts(Tail(s))

\* the weight vectors k / WDen of n positive entries that sum to 1
Simplex(n) ==
    {[i \in 1..n |-> Q(k[i], WDen)] : k \in {f \in [1..n -> 1..WDen] : SumInts(f) = WDen}}

\* means and dispersions of n components: increasing integer means with
\* dispersions 1 / (i + 1), and decreasing half-integer means with dispersion 2
MuPhiSeqs(n) ==
    {[mu |-> [i \in 1..n |-> <<i, 1>>], phi |-> [i \in 1..n |-> Q(1, i + 1)]],
     [mu |-> [i \in 1..n |-> Q(2 * (n - i) + 3, 2)], phi |-> [i \in 1..n |-> <<2, 1>>]]}

Branches(n) ==
    {[mu |-> mp.mu, phi |-> mp.phi, w |-> w] : mp \in MuPhiSeqs(n), w \in Simplex(n)}

Params(c) ==
    {[mu_lo |-> lo.mu, phi_lo |-> lo.phi, w_lo |-> lo.w,
      mu_hi |-> hi.mu, phi_hi |-> hi.phi, w_hi |-> hi.w] :
        lo \in Branches(c.n_fsd_lo_comps), hi \in Branches(c.n_fsd_hi_comps)}

\* vectors that are no image of Params: all zero, and log(i / 2) at index i;
\* of the right length and one shorter and one longer
RawXi(c) ==
    {[i \in 1..d |-> LZero] : d \in (fsd_xi_dim(c) - 1)..(fsd_xi_dim(c) + 1)}
    \cup {[i \in 1..d |-> Log(Q(i, 2))] : d \in (fsd_xi_dim(c) - 1)..(fsd_xi_dim(c) + 1)}

ParentsInputs ==
    {NoParents,
     [given |-> TRUE, inducing |-> 1, non_inducing |-> 0],
     [given |-> TRUE, inducing |-> 0, non_inducing |-> 1]}

Intercepts == {Log(<<1, 2>>), Log(<<3, 1>>)}

Slopes == {1, 2}

Configs ==
    {FSDModelGPLVM(n_hi, n_lo) : n_hi \in 1..MaxComps, n_lo \in 1..MaxComps}
    \cup {FSDModelGPLVMRestricted(n_hi, a, b, dt) :
             n_hi \in 1..MaxComps, a \in Intercepts, b \in Slopes, dt \in BOOLEAN}

NoCall == [op |-> "none"]

(***************************************************************************)
(* SpecCodec: one codec pipeline per behaviour.  Init constructs a model   *)
(* and draws the input; the actions apply encode, decode and               *)
(* get_sorted_fsd_xi to it.                                                *)
(***************************************************************************)
InitCodec ==
    /\ cfg \in Configs
    /\ probe \in {[op |-> "params", p |-> p] : p \in Params(cfg)}
                 \cup {[op |-> "xi", xi |-> x] : x \in RawXi(cfg)}
    /\ heap = <<>>
    /\ caches = <<>>
    /\ invs = <<>>
    /\ last = NoCall
    /\ live = <<>>
    /\ regd = <<>>

transformVars == <<heap, caches, invs, last, live, regd>>

\* xi = encode(p)
EncodeCall ==
    /\ probe.op = "params"
    /\ probe' = [op |-> "encoded", p |-> probe.p, xi |-> encode(cfg, probe.p)]
    /\ UNCHANGED <<cfg, transformVars>>

\* decode(output_dict={'fsd_xi_nq': xi}, parents_dict=parents)
DecodeCall ==
    /\ probe.op \in {"encoded", "xi"}
    /\ \E parents \in ParentsInputs :
           probe' = [op |-> "decoded", from |-> probe, xi |-> probe.xi,
                     parents |-> parents, dec |-> decode(cfg, probe.xi, parents)]
    /\ UNCHANGED <<cfg, transformVars>>

\* once = get_sorted_fsd_xi(xi)
SortCall ==
    /\ probe.op \in {"encoded", "xi"}
    /\ \E once \in get_sorted_fsd_xi(cfg, probe.xi) :
           probe' = [op |-> "sorted", xi |-> probe.xi, once |-> once]
    /\ UNCHANGED <<cfg, transformVars>>

\* twice = get_sorted_fsd_xi(once)
SortAgainCall ==
    /\ probe.op = "sorted"
    /\ \E twice \in get_sorted_fsd_xi(cfg, probe.once) :
           probe' = [op |-> "sorted2", xi |-> probe.xi, once |-> probe.once,
                     twice |-> twice]
    /\ UNCHANGED <<cfg, transformVars>>

NextCodec == EncodeCall \/ DecodeCall \/ SortCall \/ SortAgainCall

SpecCodec == InitCodec /\ [][NextCodec]_vars

(***************************************************************************)
(* SortByComponentWeights.  The intermediates cache is a python dict keyed *)
(* by tensors; a tensor hashes by identity, so the key of y is the object  *)
(* y, not its content.  A cache is the set of its items [key, x].          *)
(***************************************************************************)
None == 0

CacheKey(y) == y

\* mutant: one dict shared by every instance
SharedSlot(t) == 1

\* the dict instance t holds: __init__ gives each instance its own
Slot(t) == t

\* self._intermediates_cache of instance t
CacheOf(t) == caches[Slot(t)]

\* y in cache
cache_contains(cache, y) == \E e \in cache : e.key = CacheKey(y)

\* cache[y]
cache_get(cache, y) == (CHOOSE e \in cache : e.key = CacheKey(y)).x

\* mutant: the entry is read and left in the cache
cache_keep(cache, y) == cache

\* the dict after cache.pop(y)
cache_pop(cache, y) == {e \in cache : e.key # CacheKey(y)}

\* the dict after cache[y] = x
cache_set(cache, y, x) ==
    {e \in cache : e.key # CacheKey(y)} \cup {[key |-> CacheKey(y), x |-> x]}

\* mutant: a collision evicts the entry before the assertion is raised
_add_intermediate_to_cache_evicting(cache, x, y) ==
    IF cache_contains(cache, y)
    THEN [err |-> "AssertionError", cache |-> {e \in cache : e.key # CacheKey(y)}]
    ELSE [err |-> "none", cache |-> cache_set(cache, y, x)]

\* mutant: no assertion; an existing entry is overwritten
_add_intermediate_to_cache_unchecked(cache, x, y) ==
    [err |-> "none", cache |-> cache_set(cache, y, x)]

_add_intermediate_to_cache(cache, x, y) ==
    IF cache_contains(cache, y) THEN [err |-> "AssertionError", cache |-> cache]
    ELSE [err |-> "none", cache |-> cache_set(cache, y, x)]

result_of_call(r, y) ==
    [err |-> r.err, out |-> IF r.err = "none" THEN y ELSE None, cache |-> r.cache]

\* mutant: registers the pair the wrong way round
_call_swapped(cache, x, y) == result_of_call(_add_intermediate_to_cache(cache, y, x), y)

\* _call(x), where y is the new tensor get_sorted_fsd_xi(x) returned
_call(cache, x, y) == result_of_call(_add_intermediate_to_cache(cache, x, y), y)

_inverse(cache, y) ==
    IF cache_contains(cache, y)
    THEN [err |-> "none", out |-> cache_get(cache, y), cache |-> cache_pop(cache, y)]
    ELSE [err |-> "KeyError", out |-> None, cache |-> cache]

\* mutant: the distribution carries no transform; the base draw is returned
base_sample(x, y) == x

\* TransformedDistribution(base, [transform]).sample(): the base draw x pushed
\* through the transform
transformed_sample(x, y) == y

(***************************************************************************)
(* History of the calls on the transform instances, kept beside the        *)
(* program's state: live[t] is the set of pairs <<y, x>> registered on t   *)
(* by a successful forward call (or a successful direct registration) and  *)
(* not yet handed back by a successful inverse call; regd[t] is every pair   *)
(* ever registered on t.                                                   *)
(***************************************************************************)
IsLive(lv, t, y) == \E pr \in lv[t] : pr[1] = y

LiveInput(lv, t, y) ==
    IF IsLive(lv, t, y) THEN (CHOOSE pr \in lv[t] : pr[1] = y)[2] ELSE None

Registered(lv, t, x, y, err) ==
    IF err = "none"
    THEN [lv EXCEPT ![t] = {pr \in @ : pr[1] # y} \cup {<<y, x>>}] ELSE lv

Consumed(lv, t, y, err) ==
    IF err = "none" THEN [lv EXCEPT ![t] = {pr \in @ : pr[1] # y}] ELSE lv

Noted(rg, t, x, y, err) ==
    IF err = "none" THEN [rg EXCEPT ![t] = @ \cup {<<y, x>>}] ELSE rg

NoLast ==
    [op |-> "none", inst |-> 0, x |-> None, y |-> None, out |-> None,
     err |-> "none", wasLive |-> FALSE, expect |-> None]

(***************************************************************************)
(* Spec: a constructed model, its model / guide invocations, and the       *)
(* forward, inverse and registration calls made on the transform instances *)
(* the guide invocations construct.                                        *)
(***************************************************************************)
\* the models of the behaviours of Spec: two hi components, so that sorting
\* has something to reorder
TransformConfigs ==
    {FSDModelGPLVM(2, 1), FSDModelGPLVMRestricted(2, Log(<<1, 2>>), 1, FALSE)}

\* the values a normal draw of xi takes here: weights in ascending order and
\* tied, with different means and dispersions
DrawWeights == {<<Q(1, 4), Q(3, 4)>>, <<Q(1, 2), Q(1, 2)>>}

XiDraws(c) ==
    {encode(c, [mu_lo |-> <<QOne>>, phi_lo |-> <<QOne>>, w_lo |-> <<QOne>>,
                mu_hi |-> <<Q(1, 1), Q(2, 1)>>, phi_hi |-> <<Q(1, 2), Q(1, 3)>>,
                w_hi |-> w]) : w \in DrawWeights}

Init ==
    /\ cfg \in TransformConfigs
    /\ probe = NoCall
    /\ heap = <<>>
    /\ caches = <<>>
    /\ invs = <<>>
    /\ last = NoLast
    /\ live = <<>>
    /\ regd = <<>>

\* model() and guide() run to completion: nothing else happens while one is
\* in progress
Idle == \A i \in 1..Len(invs) : invs[i].pc = "done"

\* mutant: the sample statement outside the scale block
SampleSite_unscaled(site, distribution) ==
    [ev |-> "sample", site |-> site, dist |-> distribution, scaled |-> FALSE]

\* a pyro.sample statement inside `with poutine.scale(scale=...)`
SampleSite(site, distribution) ==
    [ev |-> "sample", site |-> site, dist |-> distribution, scaled |-> TRUE]

Advance(i, pc, event) ==
    invs' = [invs EXCEPT ![i].pc = pc, ![i].trace = Append(@, event)]

\* guide: set_mode, the assertions on data, then the latent site
GuideLatent ==
    /\ Idle
    /\ Len(invs) < MaxInvocations
    /\ invs' = Append(invs, [kind |-> "guide", pc |-> "gplvm", base |-> None,
                             xform |-> 0, ret |-> None,
                             trace |-> <<SampleSite("fsd_latent_nl", "posterior_normal")>>])
    /\ UNCHANGED <<cfg, probe, heap, caches, last, live, regd>>

\* guide: self.gplvm.guide()
GuideGP(i) ==
    /\ invs[i].kind = "guide" /\ invs[i].pc = "gplvm"
    /\ Advance(i, "xi", [ev |-> "gplvm.guide"])
    /\ UNCHANGED <<cfg, probe, heap, caches, last, live, regd>>

\* the forward call of instance t on tensor x of heap hp: y is allocated with
\* the content yv that get_sorted_fsd_xi returned, and registered
Forward(cs, lv, rg, hp, t, x, yv) ==
    /\ heap' = Append(hp, yv)
    /\ caches' = [cs EXCEPT ![Slot(t)] = _call(cs[Slot(t)], x, Len(hp) + 1).cache]
    /\ last' = [op |-> "call", inst |-> t, x |-> x, y |-> Len(hp) + 1,
                out |-> _call(cs[Slot(t)], x, Len(hp) + 1).out,
                err |-> _call(cs[Slot(t)], x, Len(hp) + 1).err,
                wasLive |-> IsLive(lv, t, Len(hp) + 1),
                expect |-> LiveInput(lv, t, Len(hp) + 1)]
    /\ live' = Registered(lv, t, x, Len(hp) + 1, _call(cs[Slot(t)], x, Len(hp) + 1).err)
    /\ regd' = Noted(rg, t, x, Len(hp) + 1, _call(cs[Slot(t)], x, Len(hp) + 1).err)

\* guide: a new SortByComponentWeights(self), the base normal draw x, and the
\* xi site: the sample of the transformed distribution
GuideXi(i) ==
    /\ invs[i].kind = "guide" /\ invs[i].pc = "xi"
    /\ Len(heap) + 2 <= MaxTensors
    /\ \E d \in XiDraws(cfg) : \E yv \in get_sorted_fsd_xi(cfg, d) :
           /\ Forward(Append(caches, {}), Append(live, {}), Append(regd, {}),
                      Append(heap, d), Len(caches) + 1, Len(heap) + 1, yv)
           /\ invs' = [invs EXCEPT
                  ![i].pc = "done",
                  ![i].base = Len(heap) + 1,
                  ![i].xform = Len(caches) + 1,
                  ![i].ret = transformed_sample(Len(heap) + 1, Len(heap) + 2),
                  ![i].trace = Append(@, SampleSite("fsd_xi_nq", "sorted_posterior_normal"))]
    /\ UNCHANGED <<cfg, probe>>

\* model: set_mode, the assertion on data, then the latent site
ModelLatent ==
    /\ Idle
    /\ Len(invs) < MaxInvocations
    /\ invs' = Append(invs, [kind |-> "model", pc |-> "set_data", base |-> None,
                             xform |-> 0, ret |-> None,
                             trace |-> <<SampleSite("fsd_latent_nl", "standard_normal")>>])
    /\ UNCHANGED <<cfg, probe, heap, caches, last, live, regd>>

\* model: self.gplvm.set_data(X=fsd_latent_nl, y=None)
ModelSetData(i) ==
    /\ invs[i].kind = "model" /\ invs[i].pc = "set_data"
    /\ Advance(i, "gplvm", [ev |-> "gplvm.set_data", X |-> "fsd_latent_nl"])
    /\ UNCHANGED <<cfg, probe, heap, caches, last, live, regd>>

\* model: fsd_xi_loc_qn, fsd_xi_var_qn = self.gplvm.model()
ModelGP(i) ==
    /\ invs[i].kind = "model" /\ invs[i].pc = "gplvm"
    /\ Advance(i, "xi", [ev |-> "gplvm.model"])
    /\ UNCHANGED <<cfg, probe, heap, caches, last, live, regd>>

\* model: the xi site, a normal draw returned as it is
ModelXi(i) ==
    /\ invs[i].kind = "model" /\ invs[i].pc = "xi"
    /\ Len(heap) + 1 <= MaxTensors
    /\ \E d \in XiDraws(cfg) :
           /\ heap' = Append(heap, d)
           /\ invs' = [invs EXCEPT
                  ![i].pc = "done",
                  ![i].base = Len(heap) + 1,
                  ![i].ret = Len(heap) + 1,
                  ![i].trace = Append(@, SampleSite("fsd_xi_nq", "gp_normal"))]
    /\ UNCHANGED <<cfg, probe, caches, last, live, regd>>

\* transform(x) on an existing instance and an existing tensor
CallForward(t, x) ==
    /\ Idle
    /\ Len(heap) + 1 <= MaxTensors
    /\ \E yv \in get_sorted_fsd_xi(cfg, heap[x]) :
           Forward(caches, live, regd, heap, t, x, yv)
    /\ UNCHANGED <<cfg, probe, invs>>

\* transform.inv(y): what the score of a sampled value calls
CallInverse(t, y) ==
    /\ Idle
    /\ caches' = [caches EXCEPT ![Slot(t)] = _inverse(CacheOf(t), y).cache]
    /\ last' = [op |-> "inverse", inst |-> t, x |-> None, y |-> y,
                out |-> _inverse(CacheOf(t), y).out,
                err |-> _inverse(CacheOf(t), y).err,
                wasLive |-> IsLive(live, t, y),
                expect |-> LiveInput(live, t, y)]
    /\ live' = Consumed(live, t, y, _inverse(CacheOf(t), y).err)
    /\ UNCHANGED <<cfg, probe, heap, invs, regd>>

\* transform._add_intermediate_to_cache(x, y) called directly, with a pair the
\* forward pass of that instance produced
CallAdd(t, x, y) ==
    /\ Idle
    /\ caches' = [caches EXCEPT
           ![Slot(t)] = _add_intermediate_to_cache(CacheOf(t), x, y).cache]
    /\ last' = [op |-> "add", inst |-> t, x |-> x, y |-> y, out |-> None,
                err |-> _add_intermediate_to_cache(CacheOf(t), x, y).err,
                wasLive |-> IsLive(live, t, y),
                expect |-> LiveInput(live, t, y)]
    /\ live' = Registered(live, t, x, y,
                          _add_intermediate_to_cache(CacheOf(t), x, y).err)
    /\ regd' = Noted(regd, t, x, y, _add_intermediate_to_cache(CacheOf(t), x, y).err)
    /\ UNCHANGED <<cfg, probe, heap, invs>>

Next ==
    \/ GuideLatent
    \/ ModelLatent
    \/ \E i \in 1..Len(invs) : GuideGP(i)
    \/ \E i \in 1..Len(invs) : GuideXi(i)
    \/ \E i \in 1..Len(invs) : ModelSetData(i)
    \/ \E i \in 1..Len(invs) : ModelGP(i)
    \/ \E i \in 1..Len(invs) : ModelXi(i)
    \/ \E t \in 1..Len(caches) : \E x \in 1..Len(heap) : CallForward(t, x)
    \/ \E t \in 1..Len(caches) : \E y \in 1..Len(heap) : CallInverse(t, y)
    \/ \E t \in 1..Len(caches) : \E pr \in regd[t] : CallAdd(t, pr[2], pr[1])

Spec == Init /\ [][Next]_vars

(***************************************************************************)
(* Construction.  __init__ reads init_params_dict and the per-gene         *)
(* empirical statistics of sc_fingerprint_dtm, computes the initial values *)
(* with generate_fsd_init_params and encode, and hands mean_function to    *)
(* the sparse GP.                                                          *)
(*                                                                         *)
(* An integer k used as a real number (what mean_function returns) is held *)
(* in the same form as a logarithm, with coefficient k at the index 1,     *)
(* which is no prime: 1 and the logarithms of the primes are linearly      *)
(* independent over the rationals, so equality is still that of the reals. *)
(***************************************************************************)
QMax(a, b) == IF QLess(a, b) THEN b ELSE a

QMin(a, b) == IF QLess(b, a) THEN b ELSE a

RECURSIVE QPow(_, _)
QPow(a, k) == IF k = 0 THEN QOne ELSE QMul(a, QPow(a, k - 1))

\* np.mean of a list
QMean(s) == QDiv(QSum(s), <<Len(s), 1>>)

Real(k) == [p \in {x \in {1} : k # 0} |-> k]

\* the literal 1.1 that multiplies the configured minimum means
MinMuMargin == <<11, 10>>

\* the literal 0.9 that multiplies the configured maximum dispersion
MaxPhiFraction == <<9, 10>>

\* mutant: exponents 1..n
power_from_one(base, n) == [j \in 1..n |-> QPow(base, j)]

\* np.power(np.asarray([base]), np.arange(n))
power(base, n) == [j \in 1..n |-> QPow(base, j - 1)]

\* mutant: the weights are left as the powers of the decay
unnormalized(w) == w

\* w / np.sum(w)
normalized(w) == [j \in 1..Len(w) |-> QDiv(w[j], QSum(w))]

generate_fsd_init_params(m, mu_hi_guess, phi_hi_guess) ==
    [mu_lo |-> [j \in 1..m.n_fsd_lo_comps |->
                   QMax(QMul(QMul(m.fsd_init_mu_lo_to_mu_hi_ratio, mu_hi_guess),
                             power(m.fsd_init_mu_decay, m.n_fsd_lo_comps)[j]),
                        QMul(MinMuMargin, m.fsd_init_min_mu_lo))],
     phi_lo |-> [j \in 1..m.n_fsd_lo_comps |-> QOne],
     w_lo |-> normalized(power(m.fsd_init_w_decay, m.n_fsd_lo_comps)),
     mu_hi |-> [j \in 1..m.n_fsd_hi_comps |->
                   QMax(QMul(mu_hi_guess, power(m.fsd_init_mu_decay, m.n_fsd_hi_comps)[j]),
                        QMul(MinMuMargin, m.fsd_init_min_mu_hi))],
     phi_hi |-> [j \in 1..m.n_fsd_hi_comps |->
                    QMin(phi_hi_guess, QMul(MaxPhiFraction, m.fsd_init_max_phi_hi))],
     w_hi |-> normalized(power(m.fsd_init_w_decay, m.n_fsd_hi_comps))]

\* the population-level location: the encoded initial values at the mean of
\* the empirical statistics
init_fsd_xi_loc_prior(m, dtm) ==
    encode(m, generate_fsd_init_params(m, QMean(dtm.empirical_fsd_mu_hi),
                                       QMean(dtm.empirical_fsd_phi_hi)))

\* the per-gene location table: the encoded initial values of each gene
init_fsd_xi_loc_posterior(m, dtm) ==
    [g \in 1..dtm.n_genes |->
        encode(m, generate_fsd_init_params(m, dtm.empirical_fsd_mu_hi[g],
                                           dtm.empirical_fsd_phi_hi[g]))]

\* prior.expand([n_genes, fsd_xi_dim]) + scale * torch.randn_like(posterior)
randomized_prior(prior, scale, noise) ==
    [g \in 1..Len(noise) |->
        [q \in 1..Len(prior) |-> LAdd(prior[q], LScale(scale, noise[g][q]))]]

\* mutant: the estimated table whatever the strategy
fsd_xi_posterior_loc_gq_estimated(type, prior, posterior, scale, noise) == posterior

\* the branches on posterior_init_type
fsd_xi_posterior_loc_gq(type, prior, posterior, scale, noise) ==
    IF type = "randomized_prior" THEN randomized_prior(prior, scale, noise)
    ELSE posterior

\* the fields both constructors copy from init_params_dict
init_fields(d, variant, n_lo) ==
    [variant |-> variant,
     n_fsd_hi_comps |-> d.n_fsd_hi_comps,
     n_fsd_lo_comps |-> n_lo,
     fsd_init_min_mu_lo |-> d.init_min_mu_lo,
     fsd_init_min_mu_hi |-> d.init_min_mu_hi,
     fsd_init_max_phi_hi |-> d.init_max_phi_hi,
     fsd_init_mu_decay |-> d.init_mu_decay,
     fsd_init_w_decay |-> d.init_w_decay,
     fsd_init_mu_lo_to_mu_hi_ratio |-> d.init_mu_lo_to_mu_hi_ratio,
     fsd_init_xi_posterior_scale |-> d.init_fsd_xi_posterior_scale,
     fsd_gplvm_latent_dim |-> d.latent_dim]

\* the parameters the constructor creates, added to the fields read so far
with_params(f, intercept, detach, type, dtm, loc) ==
    [variant |-> f.variant,
     n_fsd_hi_comps |-> f.n_fsd_hi_comps,
     n_fsd_lo_comps |-> f.n_fsd_lo_comps,
     fsd_init_min_mu_lo |-> f.fsd_init_min_mu_lo,
     fsd_init_min_mu_hi |-> f.fsd_init_min_mu_hi,
     fsd_init_max_phi_hi |-> f.fsd_init_max_phi_hi,
     fsd_init_mu_decay |-> f.fsd_init_mu_decay,
     fsd_init_w_decay |-> f.fsd_init_w_decay,
     fsd_init_mu_lo_to_mu_hi_ratio |-> f.fsd_init_mu_lo_to_mu_hi_ratio,
     fsd_init_xi_posterior_scale |-> f.fsd_init_xi_posterior_scale,
     fsd_gplvm_latent_dim |-> f.fsd_gplvm_latent_dim,
     log_mu_lo_intercept |-> intercept,
     log_mu_lo_slope |-> 1,
     detach_non_inducing_genes |-> detach,
     posterior_init_type |-> type,
     fsd_xi_mean |-> init_fsd_xi_loc_prior(f, dtm),
     fsd_xi_posterior_loc_gq |-> loc]

NoModel == [variant |-> "none"]

Raised(err) == [err |-> err, model |-> NoModel]

\* FSDModelGPLVM.__init__
FSDModelGPLVM_init(d, dtm, noise) ==
    IF d.posterior_init_type \notin {"randomized_prior", "estimated"}
    THEN Raised("AssertionError")
    ELSE IF d.lengthscale_size # d.latent_dim THEN Raised("AssertionError")
    ELSE [err |-> "none",
          model |-> with_params(
              init_fields(d, "full", d.n_fsd_lo_comps), LZero, FALSE,
              d.posterior_init_type, dtm,
              fsd_xi_posterior_loc_gq(
                  d.posterior_init_type,
                  init_fsd_xi_loc_prior(init_fields(d, "full", d.n_fsd_lo_comps), dtm),
                  init_fsd_xi_loc_posterior(init_fields(d, "full", d.n_fsd_lo_comps), dtm),
                  d.init_fsd_xi_posterior_scale, noise))]

\* FSDModelGPLVMRestricted.__init__: fsd.posterior_init_type is not read
FSDModelGPLVMRestricted_init(d, dtm, noise) ==
    IF d.lengthscale_size # d.latent_dim THEN Raised("AssertionError")
    ELSE [err |-> "none",
          model |-> with_params(
              init_fields(d, "restricted", 1), Log(d.init_mu_lo_to_mu_hi_ratio),
              d.detach_non_inducing_genes, "", dtm,
              init_fsd_xi_loc_posterior(init_fields(d, "restricted", 1), dtm))]

\* what mean_function(x) returns, seen along the xi dimensions it is added to
mean_function(m) == [q \in 1..fsd_xi_dim(m) |-> Real(fsd_xi_dim(m))]

\* VariationalSparseGP.model(): f_loc + self.mean_function(self.X)
gplvm_model(m, f_loc) == [q \in 1..Len(f_loc) |-> LAdd(f_loc[q], mean_function(m)[q])]

(***************************************************************************)
(* SpecInit: the arguments of a constructor are drawn, the constructor     *)
(* runs, and on the constructed model generate_fsd_init_params and the     *)
(* GP's model are called.                                                  *)
(***************************************************************************)
\* decay constants k / WDen in (0, 1], the last one outside the open interval
Decays == {Q(k, WDen) : k \in 1..WDen}

InitParamsDicts ==
    [n_fsd_hi_comps : 1..MaxComps,
     n_fsd_lo_comps : 1..MaxComps,
     posterior_init_type : {"randomized_prior", "estimated", "prior"},
     init_min_mu_lo : {<<1, 1>>},
     init_min_mu_hi : {<<1, 1>>, <<3, 1>>},
     init_max_phi_hi : {<<1, 1>>},
     init_mu_decay : {<<1, 2>>},
     init_w_decay : Decays,
     init_mu_lo_to_mu_hi_ratio : {<<1, 2>>},
     init_fsd_xi_posterior_scale : {1},
     latent_dim : {1},
     lengthscale_size : {1, 2},
     detach_non_inducing_genes : {FALSE}]

\* sc_fingerprint_dtm: two genes with their empirical statistics
Fingerprints ==
    {[n_genes |-> 2,
      empirical_fsd_mu_hi |-> <<<<8, 1>>, <<2, 1>>>>,
      empirical_fsd_phi_hi |-> <<<<1, 2>>, <<2, 1>>>>]}

\* the constructor arguments; the restricted class has one lo component
\* whatever fsd.n_fsd_lo_comps says
ConstructorArgs ==
    {[op |-> "args", cls |-> "full", d |-> d, dtm |-> dtm] :
         d \in InitParamsDicts, dtm \in Fingerprints}
    \cup {[op |-> "args", cls |-> "restricted", d |-> d, dtm |-> dtm] :
             d \in {e \in InitParamsDicts : e.n_fsd_lo_comps = 1}, dtm \in Fingerprints}

\* torch.randn_like(...): one value per gene, 0 or log 2, along every dimension
NoiseTables(n_genes) == [1..n_genes -> {LZero, Log(<<2, 1>>)}]

NoiseTable(v, dim) == [g \in 1..Len(v) |-> [q \in 1..dim |-> v[g]]]

ArgsDim(a) ==
    IF a.cls = "full"
    THEN FSDModelGPLVM_fsd_xi_dim(a.d)
    ELSE FSDModelGPLVMRestricted_fsd_xi_dim(a.d)

MuGuesses == {<<8, 1>>, <<2, 1>>}

PhiGuesses == {<<1, 2>>, <<2, 1>>}

\* locations of the GP before the mean function is added: 0 and log 3
FLocs(dim) == {[q \in 1..dim |-> LZero], [q \in 1..dim |-> Log(<<3, 1>>)]}

InitInit ==
    /\ cfg = NoModel
    /\ probe \in ConstructorArgs
    /\ heap = <<>>
    /\ caches = <<>>
    /\ invs = <<>>
    /\ last = NoCall
    /\ live = <<>>
    /\ regd = <<>>

\* the outcome r of the constructor: the model exists only if nothing raised
Constructed(r, noise) ==
    /\ cfg' = r.model
    /\ probe' = [op |-> "constructed", cls |-> probe.cls, d |-> probe.d,
                 dtm |-> probe.dtm, noise |-> noise, err |-> r.err]

\* FSDModelGPLVM(sc_fingerprint_dtm, init_params_dict) or
\* FSDModelGPLVMRestricted(sc_fingerprint_dtm, init_params_dict)
Construct ==
    /\ probe.op = "args"
    /\ \E v \in NoiseTables(probe.dtm.n_genes) :
           IF probe.cls = "full"
           THEN Constructed(FSDModelGPLVM_init(
                                probe.d, probe.dtm, NoiseTable(v, ArgsDim(probe))),
                            NoiseTable(v, ArgsDim(probe)))
           ELSE Constructed(FSDModelGPLVMRestricted_init(
                                probe.d, probe.dtm, NoiseTable(v, ArgsDim(probe))),
                            NoiseTable(v, ArgsDim(probe)))
    /\ UNCHANGED transformVars

\* self.generate_fsd_init_params(mu_hi_guess, phi_hi_guess)
GenerateInitParamsCall ==
    /\ cfg # NoModel
    /\ \E mu \in MuGuesses, phi \in PhiGuesses :
           probe' = [op |-> "init_params", mu_hi_guess |-> mu, phi_hi_guess |-> phi,
                     out |-> generate_fsd_init_params(cfg, mu, phi)]
    /\ UNCHANGED <<cfg, transformVars>>

\* self.gplvm.model(), as the model path calls it
GPModelCall ==
    /\ cfg # NoModel
    /\ \E f_loc \in FLocs(fsd_xi_dim(cfg)) :
           probe' = [op |-> "gplvm.model", f_loc |-> f_loc,
                     loc |-> gplvm_model(cfg, f_loc)]
    /\ UNCHANGED <<cfg, transformVars>>

NextInit == Construct \/ GenerateInitParamsCall \/ GPModelCall

SpecInit == InitInit /\ [][NextInit]_vars

(***************************************************************************)
(* Claims about the codec, checked under SpecCodec.                        *)
(***************************************************************************)
NonIncreasing(w) == \A i \in 1..(Len(w) - 1) : ~QLess(w[i], w[i + 1])

\* sum_j w[j] * mu[j]
WeightedMean(w, mu) == QSum([j \in 1..Len(mu) |-> QMul(w[j], mu[j])])

\* exp(intercept + slope * log(m))
Link(c, m) == Exp(LAdd(c.log_mu_lo_intercept, LScale(c.log_mu_lo_slope, Log(m))))

\* the state after decode(encode(p))
RoundTripped == probe.op = "decoded" /\ probe.from.op = "encoded"

HiRecovered(d, p) ==
    /\ d.mu_hi = p.mu_hi
    /\ d.phi_hi = p.phi_hi
    /\ d.w_hi = p.w_hi

LoRecovered(d, p) ==
    /\ d.mu_lo = p.mu_lo
    /\ d.phi_lo = p.phi_lo
    /\ d.w_lo = p.w_lo

\* C5, as stated: decode(encode(p)) = p, all six fields, for the full and for
\* the restricted codec.
C5_RoundTripAllSixFields ==
    RoundTripped =>
        /\ probe.dec.err = "none"
        /\ HiRecovered(probe.dec.params, probe.from.p)
        /\ LoRecovered(probe.dec.params, probe.from.p)

\* C5, amended: the full codec recovers all six fields; the restricted codec
\* recovers mu_hi, phi_hi and w_hi, and returns the lo branch its link
\* synthesizes (mu_lo = exp(intercept + slope * log(sum_j w_hi[j] * mu_hi[j])),
\* phi_lo = 1, w_lo = 1) whatever lo branch p had.
C5_RoundTrip ==
    RoundTripped =>
        /\ probe.dec.err = "none"
        /\ HiRecovered(probe.dec.params, probe.from.p)
        /\ cfg.variant = "full" => LoRecovered(probe.dec.params, probe.from.p)
        /\ cfg.variant = "restricted" =>
               /\ probe.dec.params.mu_lo =
                      <<Link(cfg, WeightedMean(probe.from.p.w_hi, probe.from.p.mu_hi))>>
               /\ probe.dec.params.phi_lo = <<QOne>>
               /\ probe.dec.params.w_lo = <<QOne>>

\* a restricted round trip whose p had a lo branch the link does not produce
C5_Witness ==
    /\ RoundTripped
    /\ cfg.variant = "restricted"
    /\ cfg.n_fsd_hi_comps = 2
    /\ probe.dec.params.mu_lo # probe.from.p.mu_lo
    /\ probe.dec.params.phi_lo # probe.from.p.phi_lo

\* C6, as stated: get_sorted_fsd_xi applied twice gives what one application
\* gives, and the weights decoded from its output do not increase along either
\* branch.
C6_SortIdempotentNonIncreasing ==
    probe.op = "sorted2" =>
        /\ probe.twice = probe.once
        /\ NonIncreasing(decode(cfg, probe.once, NoParents).params.w_hi)
        /\ NonIncreasing(decode(cfg, probe.once, NoParents).params.w_lo)

\* C7: encode's output has fsd_xi_dim entries, (3 n_hi - 1) + (3 n_lo - 1) in
\* the full model and 3 n_hi - 1 in the restricted one, and decode's slices are
\* encode's segments in encode's order, contiguous from 0 to fsd_xi_dim.
C7_EncodeLength ==
    probe.op = "encoded" =>
        /\ Len(probe.xi) = fsd_xi_dim(cfg)
        /\ fsd_xi_dim(cfg) =
               IF cfg.variant = "full"
               THEN (3 * cfg.n_fsd_hi_comps - 1) + (3 * cfg.n_fsd_lo_comps - 1)
               ELSE 3 * cfg.n_fsd_hi_comps - 1
        /\ Len(decode_segments(cfg)) = Len(encode_parts(cfg, probe.p))
        /\ decode_segments(cfg)[1].from = 0
        /\ decode_segments(cfg)[Len(decode_segments(cfg))].to = fsd_xi_dim(cfg)
        /\ \A i \in 1..Len(decode_segments(cfg)) :
               /\ decode_segments(cfg)[i].name = encode_parts(cfg, probe.p)[i].name
               /\ decode_segments(cfg)[i].to - decode_segments(cfg)[i].from
                      = Len(encode_parts(cfg, probe.p)[i].vals)
               /\ i > 1 => decode_segments(cfg)[i].from = decode_segments(cfg)[i - 1].to

\* an encoded vector of a full model with a single-component hi branch and a
\* three-component lo branch
C7_Witness ==
    /\ probe.op = "encoded"
    /\ cfg.variant = "full"
    /\ cfg.n_fsd_hi_comps = 1
    /\ cfg.n_fsd_lo_comps = 3
    /\ Len(probe.xi) = 10

\* C9: the restricted decode returns one lo component with phi_lo = 1, w_lo = 1
\* and mu_lo = exp(intercept + slope * log(sum_j w_hi[j] * mu_hi[j])); with a
\* single hi component of mean m that is exp(intercept + slope * log(m)).
C9_RestrictedLink ==
    (probe.op = "decoded" /\ cfg.variant = "restricted" /\ probe.dec.err = "none") =>
        /\ probe.dec.params.mu_lo =
               <<Link(cfg, WeightedMean(probe.dec.params.w_hi, probe.dec.params.mu_hi))>>
        /\ probe.dec.params.phi_lo = <<QOne>>
        /\ probe.dec.params.w_lo = <<QOne>>
        /\ cfg.n_fsd_hi_comps = 1 =>
               /\ probe.dec.params.w_hi = <<QOne>>
               /\ probe.dec.params.mu_lo = <<Link(cfg, probe.dec.params.mu_hi[1])>>

\* a restricted decode of two hi components of different weight and mean, with
\* slope 2 and the detached link
C9_Witness ==
    /\ probe.op = "decoded"
    /\ cfg.variant = "restricted"
    /\ probe.dec.err = "none"
    /\ cfg.n_fsd_hi_comps = 2
    /\ cfg.log_mu_lo_slope = 2
    /\ cfg.detach_non_inducing_genes /\ probe.parents.given
    /\ probe.dec.params.w_hi[1] # probe.dec.params.w_hi[2]
    /\ probe.dec.params.mu_hi[1] # probe.dec.params.mu_hi[2]

\* C10: decode of a vector whose last dimension is not fsd_xi_dim fails with
\* the assertion and returns no parameters, in both models.
C10_DecodeRejectsWrongLength ==
    (probe.op = "decoded" /\ Len(probe.xi) # fsd_xi_dim(cfg)) =>
        /\ probe.dec.err = "AssertionError"
        /\ probe.dec.params = NoParams

\* a restricted decode of a vector one entry too long
C10_Witness ==
    /\ probe.op = "decoded"
    /\ cfg.variant = "restricted"
    /\ Len(probe.xi) = fsd_xi_dim(cfg) + 1
    /\ probe.dec.err = "AssertionError"

(***************************************************************************)
(* Claims about the transform and the model / guide invocations, checked   *)
(* under Spec.                                                             *)
(***************************************************************************)
Item(y, x) == [key |-> CacheKey(y), x |-> x]

EverRegistered(t, y) == \E pr \in regd[t] : pr[1] = y

GuideDone(i) == invs[i].kind = "guide" /\ invs[i].pc = "done"

ModelDone(i) == invs[i].kind = "model" /\ invs[i].pc = "done"

\* C1: an inverse call on y, made on the instance whose forward call returned
\* y and before any other inverse call consumed it, succeeds and returns the
\* very x that forward call was given, whatever calls came in between and
\* whatever other registered outputs have the same content as y.
C1_InverseReturnsOriginal ==
    (last.op = "inverse" /\ last.wasLive) =>
        /\ last.err = "none"
        /\ last.out = last.expect
        /\ last.out # None

\* an inverse call that returned an unsorted x while another output with the
\* content of y is still registered on the same instance
C1_Witness ==
    /\ last.op = "inverse" /\ last.wasLive /\ last.err = "none"
    /\ heap[last.out] # heap[last.y]
    /\ \E pr \in live[last.inst] : pr[1] # last.y /\ heap[pr[1]] = heap[last.y]

\* C2: an inverse call on a y that has no registered entry on the instance
\* (never registered there, or already consumed) raises KeyError and returns
\* nothing; a registration of a y whose key is present raises AssertionError
\* and leaves the entry as it was.
C2_ProtocolViolationsFatal ==
    /\ (last.op = "inverse" /\ ~last.wasLive) =>
           (last.err = "KeyError" /\ last.out = None)
    /\ (last.op \in {"call", "add"} /\ last.wasLive) =>
           /\ last.err = "AssertionError"
           /\ last.out = None
           /\ Item(last.y, last.expect) \in CacheOf(last.inst)

\* a registration refused because the key is present
C2_Witness ==
    /\ last.op = "add" /\ last.wasLive /\ last.err = "AssertionError"
    /\ Item(last.y, last.expect) \in CacheOf(last.inst)

\* C3: the cache of an instance holds exactly one entry y -> x for each output
\* y of a successful forward call on it whose inverse has not been called yet,
\* and a successful inverse call consumes an entry that was there.
C3_CacheIsUnconsumedOutputs ==
    /\ \A t \in 1..Len(caches) :
           /\ CacheOf(t) = {Item(pr[1], pr[2]) : pr \in live[t]}
           /\ Cardinality(CacheOf(t)) = Cardinality({pr[1] : pr \in live[t]})
    /\ (last.op = "inverse" /\ last.err = "none") => last.wasLive

\* an inverse call has consumed one of two outputs and the other is still cached
C3_Witness ==
    /\ last.op = "inverse" /\ last.err = "none"
    /\ Cardinality(regd[last.inst]) >= 2
    /\ Cardinality(CacheOf(last.inst)) = 1
    /\ ~cache_contains(CacheOf(last.inst), last.y)

\* C4: guide invocations construct distinct transform instances with distinct
\* caches; the cache of an instance is empty but for its own entry after the
\* guide's forward call, only ever holds outputs registered on that instance,
\* and an inverse call with an output that was registered on another instance
\* only raises KeyError.
C4_PerInvocationIsolation ==
    /\ \A i, j \in 1..Len(invs) :
           (GuideDone(i) /\ GuideDone(j) /\ i # j) =>
               /\ invs[i].xform # invs[j].xform
               /\ Slot(invs[i].xform) # Slot(invs[j].xform)
    /\ \A i \in 1..Len(invs) : GuideDone(i) => invs[i].xform \in 1..Len(caches)
    /\ \A t \in 1..Len(caches) : \A e \in CacheOf(t) :
           \E pr \in regd[t] : e = Item(pr[1], pr[2])
    /\ (last.op = "call" /\ last.err = "none" /\ Cardinality(regd[last.inst]) = 1) =>
           CacheOf(last.inst) = {Item(last.y, last.x)}
    /\ (last.op = "inverse" /\ ~EverRegistered(last.inst, last.y)) =>
           (last.err = "KeyError" /\ last.out = None)

\* two guide invocations, and an inverse call on the second one's instance
\* with the output cached on the first one's
C4_Witness ==
    /\ \E i, j \in 1..Len(invs) : i # j /\ GuideDone(i) /\ GuideDone(j)
    /\ last.op = "inverse" /\ last.err = "KeyError"
    /\ \E t \in 1..Len(caches) :
           t # last.inst /\ cache_contains(CacheOf(t), last.y)

\* C8: the step that finishes a guide invocation returns a new tensor holding
\* the sorted form of the invocation's base draw, with non-increasing weights
\* in each branch, and registers it with the base draw on the invocation's new
\* transform; the step that finishes a model invocation returns its draw
\* itself, constructs no transform and leaves every cache as it was.
C8_GuideSortedModelRaw ==
    [][\A i \in 1..Len(invs) :
           (invs[i].pc = "xi" /\ invs'[i].pc = "done") =>
               IF invs[i].kind = "guide"
               THEN /\ invs'[i].ret # invs'[i].base
                    /\ invs'[i].ret \in (Len(heap) + 1)..Len(heap')
                    /\ heap'[invs'[i].ret] \in get_sorted_fsd_xi(cfg, heap'[invs'[i].base])
                    /\ NonIncreasing(decode(cfg, heap'[invs'[i].ret], NoParents).params.w_hi)
                    /\ NonIncreasing(decode(cfg, heap'[invs'[i].ret], NoParents).params.w_lo)
                    /\ invs'[i].xform = Len(caches')
                    /\ Len(caches') = Len(caches) + 1
                    /\ <<invs'[i].ret, invs'[i].base>> \in live'[invs'[i].xform]
               ELSE /\ invs'[i].ret = invs'[i].base
                    /\ invs'[i].ret = Len(heap')
                    /\ heap'[invs'[i].ret] \in XiDraws(cfg)
                    /\ invs'[i].xform = 0
                    /\ caches' = caches
                    /\ live' = live]_vars

\* a guide invocation whose draw the sort reordered, and a model invocation
\* whose draw is not in sorted order
C8_Witness ==
    /\ \E i \in 1..Len(invs) :
           GuideDone(i) /\ heap[invs[i].ret] # heap[invs[i].base]
    /\ \E i \in 1..Len(invs) :
           /\ ModelDone(i)
           /\ ~NonIncreasing(decode(cfg, heap[invs[i].ret], NoParents).params.w_hi)

(***************************************************************************)
(* Further claims about the codec and the sort, checked under SpecCodec.   *)
(***************************************************************************)
OnSimplex(w) ==
    /\ \A i \in 1..Len(w) : w[i][1] >= 0 /\ w[i][2] > 0
    /\ QSum(w) = QOne

BranchHas(mu, phi, w, n) == Len(mu) = n /\ Len(phi) = n /\ Len(w) = n

\* C13: every successful decode returns, in each branch, as many components
\* as the model was constructed with, with non-negative weights that sum to 1;
\* a single-component branch has weight exactly 1, and the restricted model's
\* lo branch is one component of weight 1.
C13_DecodedOnSimplex ==
    (probe.op = "decoded" /\ probe.dec.err = "none") =>
        /\ BranchHas(probe.dec.params.mu_hi, probe.dec.params.phi_hi,
                     probe.dec.params.w_hi, cfg.n_fsd_hi_comps)
        /\ BranchHas(probe.dec.params.mu_lo, probe.dec.params.phi_lo,
                     probe.dec.params.w_lo, cfg.n_fsd_lo_comps)
        /\ OnSimplex(probe.dec.params.w_hi)
        /\ OnSimplex(probe.dec.params.w_lo)
        /\ cfg.n_fsd_hi_comps = 1 => probe.dec.params.w_hi = <<QOne>>
        /\ cfg.n_fsd_lo_comps = 1 => probe.dec.params.w_lo = <<QOne>>
        /\ cfg.variant = "restricted" => probe.dec.params.w_lo = <<QOne>>

\* a decode of a vector that is no image of encode, with several hi components
\* of different weights and a single lo component
C13_Witness ==
    /\ probe.op = "decoded" /\ probe.dec.err = "none"
    /\ probe.from.op = "xi"
    /\ cfg.n_fsd_hi_comps >= 3 /\ cfg.n_fsd_lo_comps = 1
    /\ probe.dec.params.w_hi[1] # probe.dec.params.w_hi[2]

\* the triples of one branch of out are those of in taken along one index
\* order, an order along which the weights of in do not increase
PermutedByWeight(imu, iphi, iw, omu, ophi, ow) ==
    /\ Len(omu) = Len(imu) /\ Len(ophi) = Len(iphi) /\ Len(ow) = Len(iw)
    /\ \E f \in Perms(Len(iw)) :
           /\ \A i \in 1..Len(iw) :
                  omu[i] = imu[f[i]] /\ ophi[i] = iphi[f[i]] /\ ow[i] = iw[f[i]]
           /\ \A i \in 1..(Len(iw) - 1) : ~QLess(iw[f[i]], iw[f[i + 1]])

SortedFrom(in, out) ==
    /\ PermutedByWeight(in.mu_hi, in.phi_hi, in.w_hi, out.mu_hi, out.phi_hi, out.w_hi)
    /\ PermutedByWeight(in.mu_lo, in.phi_lo, in.w_lo, out.mu_lo, out.phi_lo, out.w_lo)

\* C14: the parameters decoded from get_sorted_fsd_xi(xi) are, in each branch,
\* the (mu, phi, w) triples decoded from xi taken along one index order of that
\* branch, an order of non-increasing weight: no triple is split, moved to the
\* other branch, duplicated or dropped.
C14_SortPermutesTriples ==
    probe.op = "sorted" =>
        SortedFrom(decode(cfg, probe.xi, NoParents).params,
                   decode(cfg, probe.once, NoParents).params)

\* a sort that reordered a model with several components in both branches
C14_Witness ==
    /\ probe.op = "sorted"
    /\ probe.once # probe.xi
    /\ cfg.n_fsd_hi_comps >= 2 /\ cfg.n_fsd_lo_comps >= 2
    /\ decode(cfg, probe.xi, NoParents).params.mu_lo
           # decode(cfg, probe.once, NoParents).params.mu_lo
    /\ decode(cfg, probe.xi, NoParents).params.mu_hi
           # decode(cfg, probe.once, NoParents).params.mu_hi

\* the index order of a stable descending sort: among equal weights the
\* smaller index comes first
StableOrder(w) ==
    CHOOSE f \in argsort_descending(w) :
        \A i, j \in 1..Len(w) : (i < j /\ w[f[i]] = w[f[j]]) => f[i] < f[j]

StableSorted(p) ==
    [mu_lo |-> gather(p.mu_lo, StableOrder(p.w_lo)),
     phi_lo |-> gather(p.phi_lo, StableOrder(p.w_lo)),
     w_lo |-> gather(p.w_lo, StableOrder(p.w_lo)),
     mu_hi |-> gather(p.mu_hi, StableOrder(p.w_hi)),
     phi_hi |-> gather(p.phi_hi, StableOrder(p.w_hi)),
     w_hi |-> gather(p.w_hi, StableOrder(p.w_hi))]

\* C15: get_sorted_fsd_xi returns the one vector a stable descending sort
\* gives: components of equal weight keep their relative order.
C15_SortStable ==
    probe.op = "sorted" =>
        probe.once = encode(cfg, StableSorted(decode(cfg, probe.xi, NoParents).params))

(***************************************************************************)
(* Further claims about the invocations and the transform, checked under   *)
(* Spec.                                                                   *)
(***************************************************************************)
GuideOrder == <<"sample", "gplvm.guide", "sample">>

GuideSites == <<"fsd_latent_nl", "", "fsd_xi_nq">>

ModelOrder == <<"sample", "gplvm.set_data", "gplvm.model", "sample">>

ModelSites == <<"fsd_latent_nl", "", "", "fsd_xi_nq">>

\* the trace is a start of the given order of steps, with the given site names
\* and every sample statement under the scale factor
Follows(trace, order, sites) ==
    /\ Len(trace) <= Len(order)
    /\ \A k \in 1..Len(trace) :
           /\ trace[k].ev = order[k]
           /\ trace[k].ev = "sample" =>
                  (trace[k].site = sites[k] /\ trace[k].scaled)
           /\ trace[k].ev = "gplvm.set_data" => trace[k].X = "fsd_latent_nl"

\* C17: a guide invocation draws the latent site, then calls the GP's guide,
\* then draws the xi site; a model invocation draws the latent site, then sets
\* the GP's data to that latent, then calls the GP's model, then draws the xi
\* site; the sites are fsd_latent_nl and fsd_xi_nq in both, every draw is under
\* the scale factor, and a finished invocation has made all of its steps.
C17_StepOrder ==
    \A i \in 1..Len(invs) :
        /\ invs[i].kind = "guide" =>
               /\ Follows(invs[i].trace, GuideOrder, GuideSites)
               /\ invs[i].pc = "done" => Len(invs[i].trace) = Len(GuideOrder)
               /\ invs[i].pc = "done" =>
                      invs[i].trace[1].dist = "posterior_normal"
        /\ invs[i].kind = "model" =>
               /\ Follows(invs[i].trace, ModelOrder, ModelSites)
               /\ invs[i].pc = "done" => Len(invs[i].trace) = Len(ModelOrder)

\* a finished guide invocation and a finished model invocation
C17_Witness ==
    /\ \E i \in 1..Len(invs) : GuideDone(i) /\ Len(invs[i].trace) = 3
    /\ \E i \in 1..Len(invs) : ModelDone(i) /\ Len(invs[i].trace) = 4

KnownInitTypes == {"randomized_prior", "estimated"}

JustConstructed == probe.op = "constructed"

\* the table is the population location plus the scaled noise, gene by gene
PriorPlusNoise(m, noise) ==
    /\ Len(m.fsd_xi_posterior_loc_gq) = Len(noise)
    /\ \A g \in 1..Len(noise) :
           /\ Len(m.fsd_xi_posterior_loc_gq[g]) = fsd_xi_dim(m)
           /\ \A q \in 1..fsd_xi_dim(m) :
                  m.fsd_xi_posterior_loc_gq[g][q] =
                      LAdd(m.fsd_xi_mean[q],
                           LScale(m.fsd_init_xi_posterior_scale, noise[g][q]))

\* the table is the per-gene estimate
EstimatedTable(m, dtm) ==
    m.fsd_xi_posterior_loc_gq = init_fsd_xi_loc_posterior(m, dtm)

\* what the strategy name asks of a construction
StrategyHonoured ==
    /\ probe.d.posterior_init_type \notin KnownInitTypes
           => probe.err # "none" /\ cfg = NoModel
    /\ (cfg # NoModel /\ probe.d.posterior_init_type = "randomized_prior")
           => PriorPlusNoise(cfg, probe.noise)
    /\ (cfg # NoModel /\ probe.d.posterior_init_type = "estimated")
           => EstimatedTable(cfg, probe.dtm)

\* C11 as stated: in either class, a construction with a strategy name other
\* than 'randomized_prior' and 'estimated' fails and leaves no model, with
\* 'randomized_prior' the location table is the population prior location plus
\* noise for every gene, and with 'estimated' it is the per-gene estimate.
C11_StrategyNameBothClasses == JustConstructed => StrategyHonoured

\* C11: the full model fails on a strategy name other than 'randomized_prior'
\* and 'estimated', leaving no model, and builds the population prior plus
\* noise, or the per-gene estimate, for the two known names; the restricted
\* model does not read the name: it is constructed whatever the name is, unless
\* another validation fails, and its table is always the per-gene estimate.
C11_StrategyName ==
    JustConstructed =>
        /\ probe.cls = "full" => StrategyHonoured
        /\ probe.cls = "restricted" =>
               /\ probe.err = "none" <=> probe.d.lengthscale_size = probe.d.latent_dim
               /\ probe.err = "none" <=> cfg # NoModel
               /\ cfg # NoModel => EstimatedTable(cfg, probe.dtm)

\* a full model built from the prior with noise that moves some gene, so that
\* its table differs from the per-gene estimate
C11_Witness ==
    /\ JustConstructed
    /\ probe.cls = "full"
    /\ probe.d.posterior_init_type = "randomized_prior"
    /\ cfg # NoModel
    /\ \E g \in 1..Len(probe.noise) : probe.noise[g][1] # LZero
    /\ PriorPlusNoise(cfg, probe.noise)
    /\ ~EstimatedTable(cfg, probe.dtm)

AfterGenerate == probe.op = "init_params"

StrictlyDecreasing(w) == \A j \in 1..(Len(w) - 1) : QLess(w[j + 1], w[j])

InOpenUnitInterval(a) == QLess(<<0, 1>>, a) /\ QLess(a, QOne)

\* C12: for every component count and every weight decay constant in (0, 1),
\* the hi weights and the lo weights that generate_fsd_init_params returns are
\* strictly decreasing across the component index, and each branch sums to 1.
C12_InitWeights ==
    (AfterGenerate /\ InOpenUnitInterval(cfg.fsd_init_w_decay)) =>
        /\ Len(probe.out.w_hi) = cfg.n_fsd_hi_comps
        /\ Len(probe.out.w_lo) = cfg.n_fsd_lo_comps
        /\ StrictlyDecreasing(probe.out.w_hi)
        /\ StrictlyDecreasing(probe.out.w_lo)
        /\ QSum(probe.out.w_hi) = QOne
        /\ QSum(probe.out.w_lo) = QOne

\* three hi and two lo components with decay 1/2: weights 4/7, 2/7, 1/7 and
\* 2/3, 1/3
C12_Witness ==
    /\ AfterGenerate
    /\ cfg.fsd_init_w_decay = <<1, 2>>
    /\ probe.out.w_hi = <<<<4, 7>>, <<2, 7>>, <<1, 7>>>>
    /\ probe.out.w_lo = <<<<2, 3>>, <<1, 3>>>>

\* the mean of component j (counted from 0 in the source, from 1 here): the
\* start value decayed j times, floored
DecayedFloored(start, decay, j, floor) == QMax(QMul(start, QPow(decay, j - 1)), floor)

\* the means, given the two floors, and the dispersions of the initial values
InitMeansDispersions(m, out, mu, phi, floor_hi, floor_lo) ==
    /\ Len(out.mu_hi) = m.n_fsd_hi_comps
    /\ Len(out.phi_hi) = m.n_fsd_hi_comps
    /\ Len(out.mu_lo) = m.n_fsd_lo_comps
    /\ Len(out.phi_lo) = m.n_fsd_lo_comps
    /\ \A j \in 1..m.n_fsd_hi_comps :
           /\ out.mu_hi[j] = DecayedFloored(mu, m.fsd_init_mu_decay, j, floor_hi)
           /\ out.phi_hi[j] = QMin(phi, QMul(<<9, 10>>, m.fsd_init_max_phi_hi))
    /\ \A j \in 1..m.n_fsd_lo_comps :
           /\ out.mu_lo[j] = DecayedFloored(QMul(m.fsd_init_mu_lo_to_mu_hi_ratio, mu),
                                            m.fsd_init_mu_decay, j, floor_lo)
           /\ out.phi_lo[j] = QOne

\* C16 as stated: the hi mean of component j is max(mu_hi_guess * decay^j,
\* fsd.init_min_mu_hi), the lo mean is max(ratio * mu_hi_guess * decay^j,
\* fsd.init_min_mu_lo), the hi dispersion is min(phi_hi_guess, a fraction of
\* fsd.init_max_phi_hi) for all components and the lo dispersion is 1.
C16_InitMeansFlooredAtMinimum ==
    AfterGenerate =>
        InitMeansDispersions(cfg, probe.out, probe.mu_hi_guess, probe.phi_hi_guess,
                             cfg.fsd_init_min_mu_hi, cfg.fsd_init_min_mu_lo)

\* C16: the hi mean of component j is max(mu_hi_guess * decay^j, 1.1 *
\* fsd.init_min_mu_hi), the lo mean is max(ratio * mu_hi_guess * decay^j, 1.1 *
\* fsd.init_min_mu_lo), the hi dispersion is min(phi_hi_guess, 0.9 *
\* fsd.init_max_phi_hi) for all components and the lo dispersion is 1.
C16_InitMeans ==
    AfterGenerate =>
        InitMeansDispersions(cfg, probe.out, probe.mu_hi_guess, probe.phi_hi_guess,
                             QMul(<<11, 10>>, cfg.fsd_init_min_mu_hi),
                             QMul(<<11, 10>>, cfg.fsd_init_min_mu_lo))

\* guesses 8 and 2 with minimum 3 and maximum 1: the third hi mean is floored
\* at 3.3, the third lo mean at 1.1 and the hi dispersion is capped at 0.9
C16_Witness ==
    /\ AfterGenerate
    /\ probe.mu_hi_guess = <<8, 1>>
    /\ probe.phi_hi_guess = <<2, 1>>
    /\ cfg.fsd_init_min_mu_hi = <<3, 1>>
    /\ probe.out.mu_hi = <<<<8, 1>>, <<4, 1>>, <<33, 10>>>>
    /\ probe.out.mu_lo = <<<<4, 1>>, <<2, 1>>, <<11, 10>>>>
    /\ probe.out.phi_hi = <<<<9, 10>>, <<9, 10>>, <<9, 10>>>>

\* C19: in both classes the mean function of the GP returns fsd_xi_mean, the
\* population-level location initialised from init_fsd_xi_loc_prior with one
\* value per xi dimension, so the location the model path obtains from the GP
\* is, in each xi dimension, the GP's own location plus that dimension's prior
\* mean.
C19_MeanFunctionIsPriorMean ==
    probe.op = "gplvm.model" =>
        /\ Len(cfg.fsd_xi_mean) = fsd_xi_dim(cfg)
        /\ Len(probe.loc) = fsd_xi_dim(cfg)
        /\ \A q \in 1..fsd_xi_dim(cfg) :
               probe.loc[q] = LAdd(probe.f_loc[q], cfg.fsd_xi_mean[q])

====
